---- MODULE Spec2Model ----
(***************************************************************************)
(* A model of the did:tdw resolver core: Resolver::resolve and the checks  *)
(* process_log_entry drives (src/src/resolver.rs, src/src/verification/).  *)
(*                                                                         *)
(* Representation of values:                                               *)
(*  - Option<T>: None is <<>>, Some(x) is <<x>>.                           *)
(*  - A string that may hold '-' (versionId, lastVersionId, scid) is the   *)
(*    sequence of its '-'-separated pieces, so "2-abc" is <<"2","abc">>,   *)
(*    "" is <<"">>, and str::split('-') returns the representation.        *)
(*  - DateTime<Utc> with ts_seconds is an integer number of seconds.       *)
(*  - SHA-256 + multihash + base58 is a collision-free function of the     *)
(*    canonical text it is applied to.                                     *)
(***************************************************************************)
EXTENDS Integers, Sequences, FiniteSets, TLC

\* ------------------------------------------------------------------ bounds
\* Longest fetched log, in entries.
MaxLog == 2
\* Latest instant of the wall clock and of a versionTime, in seconds.
MaxTime == 2
\* Most calls of resolve made on one Resolver instance.
MaxCalls == 2
\* Most resolve_did calls in progress at once.
MaxTasks == 2

\* ------------------------------------------------------------- Option<T>
None == <<>>
Some(x) == <<x>>
IsSome(o) == Len(o) = 1
IsNone(o) == Len(o) = 0
Unwrap(o) == o[1]

\* ------------------------------------------------------ hashing, strings
\* Multihash::wrap(SHA2_256, Sha256::digest(bytes)).to_bytes().to_base58():
\* a base58 text (one piece, no '-') that determines the bytes hashed.
multihash_base58(text) == "Qm(" \o text \o ")"

\* generate_key_hash: the multihash of the raw key string.
generate_key_hash(key) == multihash_base58(key)

\* SCID_PLACEHOLDER, as a string without '-'.
SCID_PLACEHOLDER == <<"{SCID}">>

\* The numerals u64::from_str accepts here: the decimal numerals of
\* 0..MaxLog+2, and "01" and "+1", which parse to 1.
MaxNum == MaxLog + 2
ParseU64(piece) ==
    IF \E n \in 0..MaxNum : ToString(n) = piece
    THEN Some(CHOOSE n \in 0..MaxNum : ToString(n) = piece)
    ELSE IF piece \in {"01", "+1"} THEN Some(1)
    ELSE None

\* The text of a list of texts, in JSON array form.
RECURSIVE Joined(_, _)
Joined(texts, sep) ==
    IF Len(texts) = 0 THEN ""
    ELSE IF Len(texts) = 1 THEN texts[1]
    ELSE texts[1] \o sep \o Joined(Tail(texts), sep)
JsonArray(texts) == "[" \o Joined(texts, ",") \o "]"
\* A string with '-' as text: its pieces joined by '-'.
Text(pieces) == Joined(pieces, "-")
JsonBool(b) == IF b THEN "true" ELSE "false"

\* serde_json_canonicalizer::to_string of a DIDLogEntry: every serialized
\* field, keys in lexicographic order, and not last_version_id, which is
\* #[serde(skip)]. An Option that is None is written null here, which
\* determines the value as leaving the key out does.
JsonParameters(p) ==
    "{deactivated:"
        \o (IF IsSome(p.deactivated) THEN JsonBool(Unwrap(p.deactivated))
            ELSE "null")
    \o ",method:" \o p.method
    \o ",next_key_hashes:"
        \o (IF IsSome(p.next_key_hashes)
            THEN JsonArray(Unwrap(p.next_key_hashes)) ELSE "null")
    \o ",portable:"
        \o (IF IsSome(p.portable) THEN JsonBool(Unwrap(p.portable))
            ELSE "null")
    \o ",prerotation:"
        \o (IF IsSome(p.prerotation) THEN JsonBool(Unwrap(p.prerotation))
            ELSE "null")
    \o ",scid:" \o (IF IsSome(p.scid) THEN Text(Unwrap(p.scid)) ELSE "null")
    \o ",ttl:" \o (IF IsSome(p.ttl) THEN ToString(Unwrap(p.ttl)) ELSE "null")
    \o ",update_keys:"
        \o (IF IsSome(p.update_keys)
            THEN JsonArray(Unwrap(p.update_keys)) ELSE "null")
    \o "}"
JsonProof(proof) ==
    "{proofValue:" \o proof.proof_value
    \o ",verificationMethod:" \o proof.verification_method \o "}"
jcs_canonicalize(entry) ==
    "{parameters:" \o JsonParameters(entry.parameters)
    \o ",proof:"
        \o JsonArray([i \in 1..Len(entry.proof) |-> JsonProof(entry.proof[i])])
    \o ",state:{id:" \o entry.state.id \o "}"
    \o ",versionId:" \o Text(entry.version_id)
    \o ",versionTime:" \o ToString(entry.version_time)
    \o "}"

\* serde_json::from_str of one log line: the line carries the serialized
\* fields only, and the skipped last_version_id gets String::default().
DeserializeEntry(line) ==
    [version_id      |-> line.versionId,
     version_time    |-> line.versionTime,
     parameters      |-> line.parameters,
     state           |-> line.state,
     proof           |-> line.proof,
     last_version_id |-> <<"">>]

\* ------------------------------------------------- verification/entry.rs
\* A hash over the entry as it stands, its proofs included.
calculate_entry_hash_with_proof(entry) ==
    multihash_base58(jcs_canonicalize(entry))
calculate_entry_hash(entry) ==
    multihash_base58(jcs_canonicalize([entry EXCEPT !.proof = <<>>]))

verify_entry_hash(entry) ==
    LET parts == entry.version_id
        version_number == ParseU64(parts[1])
        verify_entry ==
            IF Unwrap(version_number) = 1
            THEN [entry EXCEPT !.version_id = Unwrap(entry.parameters.scid)]
            ELSE [entry EXCEPT !.version_id = entry.last_version_id]
    IN  IF Len(parts) # 2 THEN "InvalidVersionId"
        ELSE IF IsNone(version_number) THEN "InvalidVersionId"
        ELSE IF Unwrap(version_number) = 1 /\ IsNone(entry.parameters.scid)
             THEN "InvalidVersionId"
        ELSE IF parts[2] # calculate_entry_hash(verify_entry)
             THEN "InvalidEntryHash"
        ELSE "Ok"

\* -------------------------------------------------- verification/scid.rs
generate_scid(entry) ==
    LET entry_copy ==
            [entry EXCEPT !.version_id = SCID_PLACEHOLDER,
                          !.parameters.scid =
                              IF IsSome(@) THEN Some(SCID_PLACEHOLDER) ELSE @]
    IN  <<multihash_base58(jcs_canonicalize(entry_copy))>>

verify_scid(scid, entry) ==
    IF scid # generate_scid(entry) THEN "InvalidSCID" ELSE "Ok"

\* ------------------------------------------------- verification/proof.rs
\* A proof check that requires every proof of the list to carry both fields.
verify_proof_all(entry, parameters) ==
    IF Len(entry.proof) = 0 THEN "InvalidProof"
    ELSE IF \E i \in 1..Len(entry.proof) :
                \/ entry.proof[i].verification_method = ""
                \/ entry.proof[i].proof_value = ""
         THEN "InvalidProof"
    ELSE "Ok"
verify_proof(entry, parameters) ==
    IF Len(entry.proof) = 0 THEN "InvalidProof"
    ELSE IF entry.proof[1].verification_method = ""
            \/ entry.proof[1].proof_value = ""
         THEN "InvalidProof"
    ELSE "Ok"

\* ------------------------------------------------------------ resolver.rs
VARIABLES
    pc,                   \* where the resolve call is: "new", "fetching",
                          \* "processing" (the for loop) or "returned"
    did,                  \* tdw_did, the parsed identifier being resolved
    now,                  \* the wall clock, Utc::now()
    did_log,              \* the entries of did_log.entries the loop has taken
    active_parameters,    \* Resolver.active_parameters
    processed_documents,  \* Resolver.processed_documents
    current_version,      \* Resolver.current_version
    pre_rotation_active,  \* Resolver.pre_rotation_active
    next_key_hashes,      \* Resolver.next_key_hashes
    result,               \* what resolve returned: None, or Some of
                          \* [ok |-> document] or [err |-> error kind]
    call_options,         \* the options argument of resolve, once the match
                          \* at the end of resolve has read it: Some(options)
    previous,             \* the calls of resolve this Resolver has returned
                          \* from before the current one, oldest first
    tasks,                \* the concurrent resolve_did calls: the position,
                          \* arguments, fetched log and result of each
    resolvers,            \* the fields of the Resolver instances the
                          \* concurrent calls work on
    input,                \* the argument a function of the crate is called
                          \* with directly (an entry, an identifier string,
                          \* a response body)
    output                \* None, or Some of what that function returned

vars == <<pc, did, now, did_log, active_parameters, processed_documents,
          current_version, pre_rotation_active, next_key_hashes, result,
          call_options, previous, tasks, resolvers, input, output>>

\* The mutable fields of a Resolver, as one value.
Self ==
    [active_parameters   |-> active_parameters,
     processed_documents |-> processed_documents,
     current_version     |-> current_version,
     pre_rotation_active |-> pre_rotation_active,
     next_key_hashes     |-> next_key_hashes]

\* Resolver::new()
NewResolver ==
    [active_parameters   |-> [method          |-> "did:tdw:0.4",
                              scid            |-> None,
                              prerotation     |-> None,
                              next_key_hashes |-> None,
                              portable        |-> None,
                              update_keys     |-> None,
                              deactivated     |-> None,
                              ttl             |-> None],
     processed_documents |-> <<>>,
     current_version     |-> 0,
     pre_rotation_active |-> FALSE,
     next_key_hashes     |-> {}]

\* A step of a Result-returning method: the error kind or "Ok", and the
\* Resolver as the method leaves it.
Ret(res, self) == [res |-> res, self |-> self]

SetOf(vec) == {vec[i] : i \in 1..Len(vec)}

\* A reducer that lets pre-rotation be switched off.
may_deactivate_pre_rotation(self, prerotation) == FALSE

\* The guard of update_parameters on the prerotation field:
\* self.pre_rotation_active && !prerotation.
cannot_deactivate_pre_rotation(self, prerotation) ==
    self.pre_rotation_active /\ ~prerotation

\* A reducer that refuses every portable declared after the genesis, a
\* prior value or not.
update_parameters_portable_at_genesis(self, new_params) ==
    LET opt(old, new) == IF IsSome(new) THEN new ELSE old
        a  == self.active_parameters
        s3 == [self EXCEPT
                  !.active_parameters.method = new_params.method,
                  !.active_parameters.scid = opt(a.scid, new_params.scid),
                  !.active_parameters.update_keys =
                      opt(a.update_keys, new_params.update_keys)]
        s5 == [s3 EXCEPT
                  !.active_parameters.prerotation =
                      opt(a.prerotation, new_params.prerotation),
                  !.pre_rotation_active =
                      IF IsSome(new_params.prerotation)
                      THEN Unwrap(new_params.prerotation) ELSE @,
                  !.active_parameters.next_key_hashes =
                      opt(a.next_key_hashes, new_params.next_key_hashes),
                  !.next_key_hashes =
                      IF IsSome(new_params.next_key_hashes)
                      THEN SetOf(Unwrap(new_params.next_key_hashes)) ELSE @]
        s8 == [s5 EXCEPT
                  !.active_parameters.portable =
                      opt(a.portable, new_params.portable),
                  !.active_parameters.deactivated =
                      opt(a.deactivated, new_params.deactivated),
                  !.active_parameters.ttl = opt(a.ttl, new_params.ttl)]
    IN  IF IsSome(new_params.prerotation)
           /\ cannot_deactivate_pre_rotation(s3, Unwrap(new_params.prerotation))
        THEN Ret("CannotDeactivatePreRotation", s3)
        ELSE IF IsSome(new_params.portable) /\ s5.current_version > 0
        THEN Ret("CannotEnablePortabilityAfterCreation", s5)
        ELSE Ret("Ok", s8)
\* A reducer that takes the parameters of the entry as the active
\* parameters, the omitted fields included.
update_parameters_no_inheritance(self, new_params) ==
    LET s3 == [self EXCEPT
                  !.active_parameters.method = new_params.method,
                  !.active_parameters.scid = new_params.scid,
                  !.active_parameters.update_keys = new_params.update_keys]
        s5 == [s3 EXCEPT
                  !.active_parameters.prerotation = new_params.prerotation,
                  !.pre_rotation_active =
                      IsSome(new_params.prerotation)
                      /\ Unwrap(new_params.prerotation),
                  !.active_parameters.next_key_hashes =
                      new_params.next_key_hashes,
                  !.next_key_hashes =
                      IF IsSome(new_params.next_key_hashes)
                      THEN SetOf(Unwrap(new_params.next_key_hashes)) ELSE {}]
        s8 == [s5 EXCEPT
                  !.active_parameters.portable = new_params.portable,
                  !.active_parameters.deactivated = new_params.deactivated,
                  !.active_parameters.ttl = new_params.ttl]
    IN  IF IsSome(new_params.prerotation)
           /\ cannot_deactivate_pre_rotation(s3, Unwrap(new_params.prerotation))
        THEN Ret("CannotDeactivatePreRotation", s3)
        ELSE IF IsSome(new_params.portable)
                /\ s5.current_version > 0
                /\ IsNone(self.active_parameters.portable)
        THEN Ret("CannotEnablePortabilityAfterCreation", s5)
        ELSE Ret("Ok", s8)
\* Resolver::update_parameters. The fields are written in source order, and
\* an Err returns with the fields written so far.
update_parameters(self, new_params) ==
    LET s1 == [self EXCEPT !.active_parameters.method = new_params.method]
        s2 == IF IsSome(new_params.scid)
              THEN [s1 EXCEPT !.active_parameters.scid = new_params.scid]
              ELSE s1
        s3 == IF IsSome(new_params.update_keys)
              THEN [s2 EXCEPT !.active_parameters.update_keys =
                                  new_params.update_keys]
              ELSE s2
        s4 == IF IsSome(new_params.prerotation)
              THEN [s3 EXCEPT !.active_parameters.prerotation =
                                  new_params.prerotation,
                              !.pre_rotation_active =
                                  Unwrap(new_params.prerotation)]
              ELSE s3
        s5 == IF IsSome(new_params.next_key_hashes)
              THEN [s4 EXCEPT !.active_parameters.next_key_hashes =
                                  new_params.next_key_hashes,
                              !.next_key_hashes =
                                  SetOf(Unwrap(new_params.next_key_hashes))]
              ELSE s4
        s6 == IF IsSome(new_params.portable)
              THEN [s5 EXCEPT !.active_parameters.portable =
                                  new_params.portable]
              ELSE s5
        s7 == IF IsSome(new_params.deactivated)
              THEN [s6 EXCEPT !.active_parameters.deactivated =
                                  new_params.deactivated]
              ELSE s6
        s8 == IF IsSome(new_params.ttl)
              THEN [s7 EXCEPT !.active_parameters.ttl = new_params.ttl]
              ELSE s7
    IN  IF IsSome(new_params.prerotation)
           /\ cannot_deactivate_pre_rotation(s3, Unwrap(new_params.prerotation))
        THEN Ret("CannotDeactivatePreRotation", s3)
        ELSE IF IsSome(new_params.portable)
                /\ s5.current_version > 0
                /\ IsNone(s5.active_parameters.portable)
        THEN Ret("CannotEnablePortabilityAfterCreation", s5)
        ELSE Ret("Ok", s8)

\* A sequence check that parses the number and does not compare it.
verify_version_sequence_unnumbered(self, entry) ==
    LET parts == entry.version_id
    IN  IF Len(parts) # 2 THEN "InvalidVersionId"
        ELSE IF IsNone(ParseU64(parts[1])) THEN "InvalidVersionId"
        ELSE "Ok"

\* Resolver::verify_version_sequence
verify_version_sequence(self, entry) ==
    LET parts == entry.version_id
        version_number == ParseU64(parts[1])
    IN  IF Len(parts) # 2 THEN "InvalidVersionId"
        ELSE IF IsNone(version_number) THEN "InvalidVersionId"
        ELSE IF Unwrap(version_number) # self.current_version + 1
             THEN "InvalidVersionNumber"
        ELSE "Ok"

\* A time check that lets an entry repeat the time of its predecessor.
verify_version_time_not_strict(self, entry, utc_now) ==
    IF Len(self.processed_documents) > 0
       /\ entry.version_time
              < self.processed_documents[Len(self.processed_documents)][2]
    THEN "InvalidVersionTime"
    ELSE IF entry.version_time > utc_now THEN "FutureVersionTime"
    ELSE "Ok"

\* A time check that does not read the clock.
verify_version_time_no_clock(self, entry, utc_now) ==
    IF Len(self.processed_documents) > 0
       /\ entry.version_time
              <= self.processed_documents[Len(self.processed_documents)][2]
    THEN "InvalidVersionTime"
    ELSE "Ok"

\* Resolver::verify_version_time; utc_now is the clock read by Utc::now().
verify_version_time(self, entry, utc_now) ==
    IF Len(self.processed_documents) > 0
       /\ entry.version_time
              <= self.processed_documents[Len(self.processed_documents)][2]
    THEN "InvalidVersionTime"
    ELSE IF entry.version_time > utc_now THEN "FutureVersionTime"
    ELSE "Ok"

\* A pre-rotation check that does not exempt the first entry.
verify_pre_rotation_no_exemption(self, entry) ==
    LET update_keys == Unwrap(entry.parameters.update_keys)
    IN  IF IsNone(entry.parameters.update_keys) THEN "Ok"
        ELSE IF \E i \in 1..Len(update_keys) :
                    generate_key_hash(update_keys[i])
                        \notin self.next_key_hashes
             THEN "KeyNotPreRotated"
        ELSE IF IsNone(entry.parameters.next_key_hashes)
             THEN "MissingNextKeyHashes"
        ELSE "Ok"

\* Resolver::verify_pre_rotation
verify_pre_rotation(self, entry) ==
    LET update_keys == Unwrap(entry.parameters.update_keys)
    IN  IF IsNone(entry.parameters.update_keys) THEN "Ok"
        ELSE IF self.current_version > 0
                /\ \E i \in 1..Len(update_keys) :
                       generate_key_hash(update_keys[i])
                           \notin self.next_key_hashes
             THEN "KeyNotPreRotated"
        ELSE IF IsNone(entry.parameters.next_key_hashes)
             THEN "MissingNextKeyHashes"
        ELSE "Ok"

\* A loop body that stores the document before it verifies the proof.
process_log_entry_push_before_proof(self, entry, utc_now) ==
    LET up == update_parameters(self, entry.parameters)
        s  == up.self
        r2 == verify_version_sequence(s, entry)
        r3 == verify_entry_hash(entry)
        r4 == verify_version_time(s, entry, utc_now)
        r5 == IF s.current_version = 0
              THEN IF IsNone(s.active_parameters.scid) THEN "InvalidSCID"
                   ELSE verify_scid(Unwrap(s.active_parameters.scid), entry)
              ELSE "Ok"
        r6 == IF s.pre_rotation_active
              THEN verify_pre_rotation(s, entry) ELSE "Ok"
        r7 == verify_proof(entry, s.active_parameters)
        committed ==
            [s EXCEPT !.processed_documents =
                          Append(@, <<entry.version_id, entry.version_time,
                                      entry.state>>),
                      !.current_version = @ + 1]
    IN  IF up.res # "Ok" THEN up
        ELSE IF r2 # "Ok" THEN Ret(r2, s)
        ELSE IF r3 # "Ok" THEN Ret(r3, s)
        ELSE IF r4 # "Ok" THEN Ret(r4, s)
        ELSE IF r5 # "Ok" THEN Ret(r5, s)
        ELSE IF r6 # "Ok" THEN Ret(r6, s)
        ELSE IF r7 # "Ok" THEN Ret(r7, committed)
        ELSE Ret("Ok", committed)

\* A loop body that verifies the entry hash before the version sequence.
process_log_entry_hash_first(self, entry, utc_now) ==
    LET up == update_parameters(self, entry.parameters)
        s  == up.self
        r2 == verify_version_sequence(s, entry)
        r3 == verify_entry_hash(entry)
        r4 == verify_version_time(s, entry, utc_now)
        r5 == IF s.current_version = 0
              THEN IF IsNone(s.active_parameters.scid) THEN "InvalidSCID"
                   ELSE verify_scid(Unwrap(s.active_parameters.scid), entry)
              ELSE "Ok"
        r6 == IF s.pre_rotation_active
              THEN verify_pre_rotation(s, entry) ELSE "Ok"
        r7 == verify_proof(entry, s.active_parameters)
        committed ==
            [s EXCEPT !.processed_documents =
                          Append(@, <<entry.version_id, entry.version_time,
                                      entry.state>>),
                      !.current_version = @ + 1]
    IN  IF up.res # "Ok" THEN up
        ELSE IF r3 # "Ok" THEN Ret(r3, s)
        ELSE IF r2 # "Ok" THEN Ret(r2, s)
        ELSE IF r4 # "Ok" THEN Ret(r4, s)
        ELSE IF r5 # "Ok" THEN Ret(r5, s)
        ELSE IF r6 # "Ok" THEN Ret(r6, s)
        ELSE IF r7 # "Ok" THEN Ret(r7, s)
        ELSE Ret("Ok", committed)

\* A loop body that puts the triple at the front of the history.
process_log_entry_push_front(self, entry, utc_now) ==
    LET up == update_parameters(self, entry.parameters)
        s  == up.self
        r2 == verify_version_sequence(s, entry)
        r3 == verify_entry_hash(entry)
        r4 == verify_version_time(s, entry, utc_now)
        r5 == IF s.current_version = 0
              THEN IF IsNone(s.active_parameters.scid) THEN "InvalidSCID"
                   ELSE verify_scid(Unwrap(s.active_parameters.scid), entry)
              ELSE "Ok"
        r6 == IF s.pre_rotation_active
              THEN verify_pre_rotation(s, entry) ELSE "Ok"
        r7 == verify_proof(entry, s.active_parameters)
        committed ==
            [s EXCEPT !.processed_documents =
                          <<<<entry.version_id, entry.version_time,
                              entry.state>>>> \o @,
                      !.current_version = @ + 1]
    IN  IF up.res # "Ok" THEN up
        ELSE IF r2 # "Ok" THEN Ret(r2, s)
        ELSE IF r3 # "Ok" THEN Ret(r3, s)
        ELSE IF r4 # "Ok" THEN Ret(r4, s)
        ELSE IF r5 # "Ok" THEN Ret(r5, s)
        ELSE IF r6 # "Ok" THEN Ret(r6, s)
        ELSE IF r7 # "Ok" THEN Ret(r7, s)
        ELSE Ret("Ok", committed)
\* A loop body that counts the entry before it checks it.
process_log_entry_count_first(self, entry, utc_now) ==
    LET up == update_parameters(self, entry.parameters)
        s  == [up.self EXCEPT !.current_version = @ + 1]
        r2 == verify_version_sequence(up.self, entry)
        r3 == verify_entry_hash(entry)
        r4 == verify_version_time(s, entry, utc_now)
        r5 == IF up.self.current_version = 0
              THEN IF IsNone(s.active_parameters.scid) THEN "InvalidSCID"
                   ELSE verify_scid(Unwrap(s.active_parameters.scid), entry)
              ELSE "Ok"
        r6 == IF s.pre_rotation_active
              THEN verify_pre_rotation(s, entry) ELSE "Ok"
        r7 == verify_proof(entry, s.active_parameters)
        committed ==
            [s EXCEPT !.processed_documents =
                          Append(@, <<entry.version_id, entry.version_time,
                                      entry.state>>)]
    IN  IF up.res # "Ok" THEN Ret(up.res, s)
        ELSE IF r2 # "Ok" THEN Ret(r2, s)
        ELSE IF r3 # "Ok" THEN Ret(r3, s)
        ELSE IF r4 # "Ok" THEN Ret(r4, s)
        ELSE IF r5 # "Ok" THEN Ret(r5, s)
        ELSE IF r6 # "Ok" THEN Ret(r6, s)
        ELSE IF r7 # "Ok" THEN Ret(r7, s)
        ELSE Ret("Ok", committed)
\* Resolver::process_log_entry: the first failing step returns its error;
\* only update_parameters and the final push and increment write the Resolver.
process_log_entry(self, entry, utc_now) ==
    LET up == update_parameters(self, entry.parameters)
        s  == up.self
        r2 == verify_version_sequence(s, entry)
        r3 == verify_entry_hash(entry)
        r4 == verify_version_time(s, entry, utc_now)
        r5 == IF s.current_version = 0
              THEN IF IsNone(s.active_parameters.scid) THEN "InvalidSCID"
                   ELSE verify_scid(Unwrap(s.active_parameters.scid), entry)
              ELSE "Ok"
        r6 == IF s.pre_rotation_active
              THEN verify_pre_rotation(s, entry) ELSE "Ok"
        r7 == verify_proof(entry, s.active_parameters)
        committed ==
            [s EXCEPT !.processed_documents =
                          Append(@, <<entry.version_id, entry.version_time,
                                      entry.state>>),
                      !.current_version = @ + 1]
    IN  IF up.res # "Ok" THEN up
        ELSE IF r2 # "Ok" THEN Ret(r2, s)
        ELSE IF r3 # "Ok" THEN Ret(r3, s)
        ELSE IF r4 # "Ok" THEN Ret(r4, s)
        ELSE IF r5 # "Ok" THEN Ret(r5, s)
        ELSE IF r6 # "Ok" THEN Ret(r6, s)
        ELSE IF r7 # "Ok" THEN Ret(r7, s)
        ELSE Ret("Ok", committed)

\* A selector by versionId that falls back to the last document when no
\* processed entry has the versionId.
get_document_by_version_or_latest(self, version_id) ==
    LET docs == self.processed_documents
        hits == {i \in 1..Len(docs) : docs[i][1] = version_id}
    IN  IF hits # {}
        THEN [ok |-> docs[CHOOSE i \in hits : \A j \in hits : i <= j][3]]
        ELSE IF Len(docs) = 0 THEN [err |-> "VersionNotFound"]
        ELSE [ok |-> docs[Len(docs)][3]]
\* Resolver::get_document_by_version
get_document_by_version(self, version_id) ==
    LET docs == self.processed_documents
        hits == {i \in 1..Len(docs) : docs[i][1] = version_id}
    IN  IF hits = {} THEN [err |-> "VersionNotFound"]
        ELSE [ok |-> docs[CHOOSE i \in hits : \A j \in hits : i <= j][3]]

\* A selector by time that scans the history forwards (find without rev).
get_document_by_time_first(self, time) ==
    LET docs == self.processed_documents
        hits == {i \in 1..Len(docs) : docs[i][2] <= time}
    IN  IF hits = {} THEN [err |-> "VersionNotFound"]
        ELSE [ok |-> docs[CHOOSE i \in hits : \A j \in hits : i <= j][3]]
\* Resolver::get_document_by_time
get_document_by_time(self, time) ==
    LET docs == self.processed_documents
        hits == {i \in 1..Len(docs) : docs[i][2] <= time}
    IN  IF hits = {} THEN [err |-> "VersionNotFound"]
        ELSE [ok |-> docs[CHOOSE i \in hits : \A j \in hits : i >= j][3]]

\* A latest selector that takes first() instead of last().
get_latest_document_first(self) ==
    LET docs == self.processed_documents
    IN  IF Len(docs) = 0 THEN [err |-> "NoDocumentFound"]
        ELSE [ok |-> docs[1][3]]
\* Resolver::get_latest_document
get_latest_document(self) ==
    LET docs == self.processed_documents
    IN  IF Len(docs) = 0 THEN [err |-> "NoDocumentFound"]
        ELSE [ok |-> docs[Len(docs)][3]]

\* A match on options that tries the versionTime when the versionId finds
\* nothing.
select_document_time_fallback(self, options) ==
    IF IsNone(options) THEN get_latest_document(self)
    ELSE IF /\ IsSome(Unwrap(options).version_id)
            /\ \/ IsNone(Unwrap(options).version_time)
               \/ "ok" \in DOMAIN get_document_by_version(
                                       self,
                                       Unwrap(Unwrap(options).version_id))
         THEN get_document_by_version(self, Unwrap(Unwrap(options).version_id))
    ELSE IF IsSome(Unwrap(options).version_time)
         THEN get_document_by_time(self, Unwrap(Unwrap(options).version_time))
    ELSE get_latest_document(self)
\* The match on options at the end of Resolver::resolve.
select_document(self, options) ==
    IF IsNone(options) THEN get_latest_document(self)
    ELSE IF IsSome(Unwrap(options).version_id)
         THEN get_document_by_version(self, Unwrap(Unwrap(options).version_id))
    ELSE IF IsSome(Unwrap(options).version_time)
         THEN get_document_by_time(self, Unwrap(Unwrap(options).version_time))
    ELSE get_latest_document(self)

\* ------------------------------------------------- inputs: the fetched log
\* DID documents a log may carry in "state" (the fields of DIDDocument the
\* resolver reads or returns are the whole value; it inspects none of them).
D1 == [id |-> "did:tdw:abc123:example.com"]
D2 == [id |-> "did:tdw:other:example.org"]
Docs == {D1, D2}

\* Proof lists; of a Proof only verification_method and proof_value are read.
GoodProof == [verification_method |-> "did:key:z6Mk#1", proof_value |-> "z3sig"]
NoMethodProof == [GoodProof EXCEPT !.verification_method = ""]
NoValueProof == [GoodProof EXCEPT !.proof_value = ""]
ProofKinds == {"good", "empty", "no_method", "no_value", "good_then_bad",
               "bad_then_good"}
ProofList(kind) ==
    CASE kind = "good"          -> <<GoodProof>>
      [] kind = "empty"         -> <<>>
      [] kind = "no_method"     -> <<NoMethodProof>>
      [] kind = "no_value"      -> <<NoValueProof>>
      [] kind = "good_then_bad" -> <<GoodProof, NoMethodProof>>
      [] kind = "bad_then_good" -> <<NoValueProof, GoodProof>>

\* "parameters" of a log line, without its scid.
BaseDelta ==
    [method |-> "did:tdw:0.4", update_keys |-> None, prerotation |-> None,
     next_key_hashes |-> None, portable |-> None, deactivated |-> None,
     ttl |-> None]
KeysOpt == {None, Some(<<"K1">>), Some(<<"K2">>), Some(<<"K1", "K2">>)}
HashesOpt == {None, Some(<<>>), Some(<<generate_key_hash("K1")>>),
              Some(<<generate_key_hash("K2")>>)}
PreRotationDeltas ==
    {[BaseDelta EXCEPT !.update_keys = k, !.prerotation = p,
                       !.next_key_hashes = h] :
        k \in KeysOpt, p \in {None, Some(TRUE)}, h \in HashesOpt}
    \cup {[BaseDelta EXCEPT !.prerotation = Some(FALSE)],
          [BaseDelta EXCEPT !.prerotation = Some(FALSE),
                            !.update_keys = Some(<<"K1">>),
                            !.next_key_hashes =
                                Some(<<generate_key_hash("K1")>>)]}
PortableDeltas ==
    {[BaseDelta EXCEPT !.portable = po, !.prerotation = p] :
        po \in {Some(TRUE), Some(FALSE)}, p \in {None, Some(FALSE)}}
OtherDeltas ==
    {[BaseDelta EXCEPT !.method = "did:tdw:0.5"],
     [BaseDelta EXCEPT !.deactivated = Some(TRUE)],
     [BaseDelta EXCEPT !.ttl = Some(1)]}
ParamDeltas == PreRotationDeltas \cup PortableDeltas \cup OtherDeltas
\* Deltas that the reducer or the pre-rotation check may refuse.
RefusableDeltas ==
    {BaseDelta,
     [BaseDelta EXCEPT !.prerotation = Some(FALSE)],
     [BaseDelta EXCEPT !.update_keys = Some(<<"K1">>)]}

Times == 1..MaxTime

\* How a line's versionId is written: its number piece and its hash piece.
VidKinds ==
    ({"next"} \X {"code", "chain", "junk", "nodash", "three"})
    \cup ({"same", "skip"} \X {"code", "junk"})
    \cup ({"nonnum", "lead0"} \X {"code"})
ScidKinds == {"auto", "none", "self", "did", "active"}

\* A log line is described by what its author put in each field.
Dflt(t) ==
    [params |-> BaseDelta, time |-> t, doc |-> D1, proof |-> "good",
     scid |-> "auto", num |-> "next", hash |-> "code"]
ReducerInputs ==
    {[Dflt(t) EXCEPT !.params = p] : p \in ParamDeltas, t \in Times}
VersionIdInputs ==
    {[Dflt(t) EXCEPT !.num = v[1], !.hash = v[2], !.params = p, !.proof = pr] :
        v \in VidKinds, p \in RefusableDeltas, pr \in {"good", "empty"},
        t \in Times}
ProofInputs ==
    {[Dflt(t) EXCEPT !.proof = pr, !.params = p] :
        pr \in ProofKinds, p \in RefusableDeltas, t \in Times}
ScidInputs ==
    {[Dflt(t) EXCEPT !.scid = s, !.doc = d] :
        s \in ScidKinds, d \in Docs, t \in Times}
    \cup {[Dflt(t) EXCEPT !.scid = s, !.proof = pr, !.hash = h] :
            s \in ScidKinds, pr \in {"good", "empty"}, h \in {"code", "junk"},
            t \in Times}
LineInputs == ReducerInputs \cup VersionIdInputs \cup ProofInputs \cup ScidInputs

\* Plain lines, which set the reducer up for the line that follows them. A
\* log holds at most one line that is not plain: once the loop has taken
\* one, the lines after it are plain.
SetupDeltas ==
    {BaseDelta,
     [BaseDelta EXCEPT !.prerotation = Some(TRUE)],
     [BaseDelta EXCEPT !.prerotation = Some(TRUE),
                       !.update_keys = Some(<<"K1">>),
                       !.next_key_hashes = Some(<<generate_key_hash("K1")>>)],
     [BaseDelta EXCEPT !.prerotation = Some(TRUE),
                       !.update_keys = Some(<<"K1">>),
                       !.next_key_hashes = Some(<<generate_key_hash("K2")>>)],
     [BaseDelta EXCEPT !.portable = Some(FALSE)]}
SetupInputs == {[Dflt(t) EXCEPT !.params = p] : p \in SetupDeltas, t \in Times}
IsSetup(entry) ==
    /\ [f \in DOMAIN BaseDelta |-> entry.parameters[f]] \in SetupDeltas
    /\ entry.state = D1
    /\ entry.proof = <<GoodProof>>
    /\ entry.version_id[1] \notin {"01"}
InputsAfter(before) ==
    IF \A i \in 1..Len(before) : IsSetup(before[i])
    THEN LineInputs ELSE SetupInputs

\* The line an author writes at position k of a log whose earlier lines are
\* `before`, for the identifier `id`, with `active` the scid in force.
LogLine(d, before, id, active) ==
    LET k == Len(before) + 1
        draft == [version_id      |-> SCID_PLACEHOLDER,
                  version_time    |-> d.time,
                  parameters      |->
                      [method          |-> d.params.method,
                       scid            |-> Some(SCID_PLACEHOLDER),
                       prerotation     |-> d.params.prerotation,
                       next_key_hashes |-> d.params.next_key_hashes,
                       portable        |-> d.params.portable,
                       update_keys     |-> d.params.update_keys,
                       deactivated     |-> d.params.deactivated,
                       ttl             |-> d.params.ttl],
                  state           |-> d.doc,
                  proof           |-> ProofList(d.proof),
                  last_version_id |-> <<"">>]
        kind == IF d.scid = "auto"
                THEN (IF k = 1 THEN "self" ELSE "none") ELSE d.scid
        scid == CASE kind = "none"   -> None
                  [] kind = "self"   -> Some(generate_scid(draft))
                  [] kind = "did"    -> Some(id.scid)
                  [] kind = "active" -> active
        body == [draft EXCEPT !.parameters.scid = scid]
        num  == CASE d.num = "next"   -> ToString(k)
                  [] d.num = "same"   -> ToString(k - 1)
                  [] d.num = "skip"   -> ToString(k + 1)
                  [] d.num = "nonnum" -> "x"
                  [] d.num = "lead0"  -> "01"
        genesis_link == IF IsSome(scid) THEN Unwrap(scid) ELSE <<"">>
        link == IF d.hash = "chain"
                THEN (IF k = 1 THEN genesis_link ELSE before[k - 1].version_id)
                ELSE (IF ParseU64(num) = Some(1) THEN genesis_link ELSE <<"">>)
        hash == IF d.hash = "junk" THEN "QmJunk"
                ELSE calculate_entry_hash([body EXCEPT !.version_id = link])
        vid  == CASE d.hash = "nodash" -> <<num>>
                  [] d.hash = "three"  -> <<num, hash, "x">>
                  [] OTHER             -> <<num, hash>>
    IN  [versionId   |-> vid,
         versionTime |-> body.version_time,
         parameters  |-> body.parameters,
         state       |-> body.state,
         proof       |-> body.proof]

\* Identifiers resolved: the one of the documentation, and the one whose scid
\* is the SCID of the default genesis line at time 1.
TdwDid(scid) == [scid |-> scid, domain |-> "example.com", port |-> None,
                 path |-> None]
\* TdwDid::to_string
to_string(tdw_did) ==
    "did:tdw:" \o Text(tdw_did.scid) \o ":" \o tdw_did.domain
    \o (IF IsSome(tdw_did.port) THEN ":" \o ToString(Unwrap(tdw_did.port))
        ELSE "")
    \o (IF IsSome(tdw_did.path) THEN "/" \o Unwrap(tdw_did.path) ELSE "")
Dids == {TdwDid(<<"abc123">>),
         TdwDid(Unwrap(LogLine(Dflt(1), <<>>, TdwDid(<<"abc123">>), None)
                           .parameters.scid))}

\* ResolutionOptions a caller may pass, given the history they select from.
OptionsFor(docs) ==
    {None}
    \cup {Some([version_id |-> v, version_time |-> t]) :
            v \in {None, Some(<<"9", "QmNone">>)}
                  \cup {Some(docs[i][1]) : i \in 1..Len(docs)},
            t \in {None} \cup {Some(x) : x \in 0..MaxTime}}

\* ------------------------------------------------------------------ actions
\* No call of resolve or resolve_did has been made.
NoCall ==
    /\ pc = "new"
    /\ did = None
    /\ now = 1
    /\ did_log = <<>>
    /\ active_parameters = NewResolver.active_parameters
    /\ processed_documents = NewResolver.processed_documents
    /\ current_version = NewResolver.current_version
    /\ pre_rotation_active = NewResolver.pre_rotation_active
    /\ next_key_hashes = NewResolver.next_key_hashes
    /\ result = None
    /\ call_options = None
    /\ previous = <<>>
    /\ tasks = [call \in 1..MaxTasks |->
                   [pc |-> "new", did |-> None, options |-> None,
                    did_log |-> <<>>, at |-> 0, result |-> None]]
    /\ resolvers = [call \in 1..MaxTasks |-> NewResolver]
Init ==
    /\ NoCall
    /\ input = None
    /\ output = None

\* resolve_did / Resolver::resolve up to the fetch: the identifier parses and
\* its log URL is requested.
Resolve(id) ==
    /\ pc = "new"
    /\ pc' = "fetching"
    /\ did' = Some(id)
    /\ UNCHANGED <<now, did_log, active_parameters, processed_documents,
                   current_version, pre_rotation_active, next_key_hashes,
                   result, call_options, previous, tasks, resolvers,
                   input, output>>

\* fetch_did_log returns Ok: a 2xx response every line of which deserializes.
FetchOk ==
    /\ pc = "fetching"
    /\ pc' = "processing"
    /\ UNCHANGED <<did, now, did_log, active_parameters, processed_documents,
                   current_version, pre_rotation_active, next_key_hashes,
                   result, call_options, previous, tasks, resolvers,
                   input, output>>

\* The errors of fetch_did_log: of the transport, of a status that is not a
\* success, and of a line that does not deserialize.
FetchErrors == {"RequestError", "ResolutionFailed", "InvalidDIDLog"}

\* fetch_did_log returns Err, and resolve returns it.
FetchErr(e) ==
    /\ pc = "fetching"
    /\ pc' = "returned"
    /\ result' = Some([err |-> e])
    /\ UNCHANGED <<did, now, did_log, active_parameters, processed_documents,
                   current_version, pre_rotation_active, next_key_hashes,
                   call_options, previous, tasks, resolvers, input, output>>

\* One iteration of the for loop of resolve over the next line of the log.
ProcessLogEntry(line) ==
    /\ pc = "processing"
    /\ Len(did_log) < MaxLog
    /\ \E entry \in {DeserializeEntry(line)} :
       \E out \in {process_log_entry(Self, entry, now)} :
           /\ did_log' = Append(did_log, entry)
           /\ active_parameters' = out.self.active_parameters
           /\ processed_documents' = out.self.processed_documents
           /\ current_version' = out.self.current_version
           /\ pre_rotation_active' = out.self.pre_rotation_active
           /\ next_key_hashes' = out.self.next_key_hashes
           /\ IF out.res = "Ok"
              THEN pc' = "processing" /\ result' = result
              ELSE pc' = "returned" /\ result' = Some([err |-> out.res])
    /\ UNCHANGED <<did, now, call_options, previous, tasks, resolvers,
                   input, output>>

\* The log is exhausted: the document is selected and resolve returns.
Return(options) ==
    /\ pc = "processing"
    /\ pc' = "returned"
    /\ result' = Some(select_document(Self, options))
    /\ call_options' = Some(options)
    /\ UNCHANGED <<did, now, did_log, active_parameters, processed_documents,
                   current_version, pre_rotation_active, next_key_hashes,
                   previous, tasks, resolvers, input, output>>

\* The wall clock changes while the call is in progress. Utc::now() is the
\* system's wall clock, which may also be set back.
Tick ==
    /\ pc \in {"fetching", "processing"}
    /\ now' \in (1..MaxTime) \ {now}
    /\ UNCHANGED <<pc, did, did_log, active_parameters, processed_documents,
                   current_version, pre_rotation_active, next_key_hashes,
                   result, call_options, previous, tasks, resolvers,
                   input, output>>

Next ==
    \/ \E id \in Dids : Resolve(id)
    \/ FetchOk
    \/ \E e \in FetchErrors : FetchErr(e)
    \/ /\ pc = "processing"
       /\ \E d \in InputsAfter(did_log) :
              \E line \in {LogLine(d, did_log, Unwrap(did),
                                   active_parameters.scid)} :
                  ProcessLogEntry(line)
    \/ \E options \in OptionsFor(processed_documents) : Return(options)
    \/ Tick

Spec == Init /\ [][Next]_vars

\* ------------------------------------------- one Resolver, several calls
\* Resolver::resolve takes &mut self, and a caller that keeps the Resolver
\* may call it again once a call has returned. resolve assigns none of the
\* Resolver's fields before its loop, so the new call starts on the fields
\* as the last call left them. The calls modelled are those that resolve the
\* same identifier again and are served the same log, after a
\* call that was served it.
ResolveAgain ==
    /\ pc = "returned"
    /\ Unwrap(result) \notin {[err |-> e] : e \in FetchErrors}
    /\ Len(previous) < MaxCalls - 1
    /\ previous' = Append(previous, [did_log |-> did_log,
                                     options |-> call_options,
                                     result  |-> Unwrap(result)])
    /\ pc' = "fetching"
    /\ did_log' = <<>>
    /\ call_options' = None
    /\ result' = None
    /\ UNCHANGED <<did, now, active_parameters, processed_documents,
                   current_version, pre_rotation_active, next_key_hashes,
                   tasks, resolvers, input, output>>

\* The line of the log that deserializes to the entry.
LineOf(entry) ==
    [versionId   |-> entry.version_id,
     versionTime |-> entry.version_time,
     parameters  |-> entry.parameters,
     state       |-> entry.state,
     proof       |-> entry.proof]

\* The loop of a later call takes the next line of the log the call before
\* it was served.
ProcessSameLogEntry ==
    /\ previous # <<>>
    /\ Len(did_log) < Len(previous[Len(previous)].did_log)
    /\ ProcessLogEntry(
           LineOf(previous[Len(previous)].did_log[Len(did_log) + 1]))

\* A later call reaches the end of the same log and selects with the
\* options the call before it was given, if that call read them.
ReturnAgain ==
    /\ previous # <<>>
    /\ Len(did_log) = Len(previous[Len(previous)].did_log)
    /\ \E options \in
           IF IsSome(previous[Len(previous)].options)
           THEN {Unwrap(previous[Len(previous)].options)}
           ELSE OptionsFor(processed_documents) :
           Return(options)

NextReuse ==
    \/ previous = <<>> /\ Next
    \/ ResolveAgain
    \/ previous # <<>> /\ FetchOk
    \/ ProcessSameLogEntry
    \/ ReturnAgain
    \/ previous # <<>> /\ Tick

SpecReuse == Init /\ [][NextReuse]_vars

\* ------------------------------------------------ concurrent resolve_did
\* resolve_did is an async fn: several calls may be in progress on one
\* executor. A call suspends only inside fetch_did_log (the two awaits of
\* the HTTP request); from the return of the fetch to its own return it
\* runs the loop and the selection without suspending. tasks[call] is the
\* call's position ("new", "fetching", "returned"), its arguments, the log
\* it was served, the clock it read and what it returned; resolvers[r] are
\* the fields of Resolver instance r.

\* The variables of the single call, which the concurrent calls leave alone.
call_vars == <<pc, did, did_log, active_parameters, processed_documents,
               current_version, pre_rotation_active, next_key_hashes, result,
               call_options, previous>>

\* The Resolver a call works on: resolve_did binds a fresh Resolver::new()
\* to a local of the call, so each call has an instance of its own.
resolver_of_shared(call) == 1
resolver_of(call) == call

\* The for loop of Resolver::resolve over the entries of the fetched log,
\* stopping at the first error (the ? operator).
RECURSIVE process_entries(_, _, _)
process_entries(self, entries, utc_now) ==
    IF entries = <<>> THEN Ret("Ok", self)
    ELSE LET after(out) ==
                 IF out.res # "Ok" THEN out
                 ELSE process_entries(out.self, Tail(entries), utc_now)
         IN  CHOOSE r \in {after(out) : out \in
                              {process_log_entry(self, Head(entries),
                                                 utc_now)}} : TRUE

\* Resolver::resolve from the return of the fetch on: the loop, then the
\* selection. The value is the result and the fields the Resolver is left
\* with.
resolve_fetched(self, entries, options, utc_now) ==
    LET returned(out) ==
            IF out.res # "Ok" THEN Ret([err |-> out.res], out.self)
            ELSE Ret(select_document(out.self, options), out.self)
    IN  CHOOSE r \in {returned(out) : out \in
                         {process_entries(self, entries, utc_now)}} : TRUE

\* Logs the server may hold for an identifier: empty, a genesis line, a
\* genesis line and a valid second line, a genesis line and a second line
\* whose hash is wrong.
ServedLogs(id) ==
    LET g == DeserializeEntry(LogLine(Dflt(1), <<>>, id, None))
        u == DeserializeEntry(LogLine(Dflt(2), <<g>>, id, None))
        j == DeserializeEntry(
                 LogLine([Dflt(2) EXCEPT !.hash = "junk"], <<g>>, id, None))
    IN  {<<>>, <<g>>, <<g, u>>, <<g, j>>}

\* The identifier the concurrent callers resolve: the one of the
\* documentation.
TaskDid == TdwDid(<<"abc123">>)

\* Options the concurrent callers pass.
TaskOptions ==
    {None, Some([version_id |-> None, version_time |-> Some(1)])}

\* resolve_did(did, options) up to the first await: the Resolver is
\* constructed, the identifier parses, the log is requested.
Spawn(call, id, options) ==
    /\ tasks[call].pc = "new"
    /\ tasks' = [tasks EXCEPT ![call].pc = "fetching",
                              ![call].did = Some(id),
                              ![call].options = Some(options)]
    /\ resolvers' = [resolvers EXCEPT ![resolver_of(call)] = NewResolver]
    /\ UNCHANGED <<now, call_vars, input, output>>

\* The fetch of a call fails: the call returns the error.
TaskFetchErr(call, e) ==
    /\ tasks[call].pc = "fetching"
    /\ tasks' = [tasks EXCEPT ![call].pc = "returned",
                              ![call].at = now,
                              ![call].result = Some([err |-> e])]
    /\ UNCHANGED <<now, resolvers, call_vars, input, output>>

\* The fetch of a call returns a log: the call resumes and runs to its
\* return on its Resolver.
TaskRun(call, entries) ==
    /\ tasks[call].pc = "fetching"
    /\ \E out \in {resolve_fetched(resolvers[resolver_of(call)], entries,
                                    Unwrap(tasks[call].options), now)} :
           /\ tasks' = [tasks EXCEPT ![call].pc = "returned",
                                     ![call].did_log = entries,
                                     ![call].at = now,
                                     ![call].result = Some(out.res)]
           /\ resolvers' = [resolvers EXCEPT ![resolver_of(call)] = out.self]
    /\ UNCHANGED <<now, call_vars, input, output>>

\* The clock advances while calls are in progress.
TaskTick ==
    /\ \E call \in 1..MaxTasks : tasks[call].pc # "new"
    /\ now < MaxTime
    /\ now' = now + 1
    /\ UNCHANGED <<tasks, resolvers, call_vars, input, output>>

NextConcurrent ==
    \/ \E call \in 1..MaxTasks, options \in TaskOptions :
           Spawn(call, TaskDid, options)
    \/ \E call \in 1..MaxTasks, e \in FetchErrors : TaskFetchErr(call, e)
    \/ \E call \in 1..MaxTasks :
           /\ tasks[call].pc = "fetching"
           /\ \E entries \in ServedLogs(Unwrap(tasks[call].did)) :
                  TaskRun(call, entries)
    \/ TaskTick

SpecConcurrent == Init /\ [][NextConcurrent]_vars

\* ------------------------------------- verify_entry_hash, called directly
\* verify_entry_hash is a public function of the crate: it takes any
\* DIDLogEntry value, in particular one whose last_version_id the caller
\* has set (as the crate's tests do).

\* Entries verify_entry_hash is called with. Each is described by its
\* version number piece, its parameters.scid, its last_version_id, its
\* proofs, and what its hash piece is the hash of: the entry with the
\* proofs emptied and the versionId replaced by the scid ("scid") or by the
\* last_version_id ("last"), or nothing ("junk").
HashNumbers == {"1", "01", "2", "3", "x"}
HashScids == {None, Some(<<"QmScid">>)}
HashLastVersionIds == {<<"">>, <<"QmScid">>, <<"1", "QmFirst">>}
HashProofs == {<<>>, <<GoodProof>>, <<NoValueProof, GoodProof>>}
HashedOver == {"scid", "last", "junk"}
HashEntry(num, scid, last, proof, over) ==
    LET body == [version_id      |-> <<num, "">>,
                 version_time    |-> 1,
                 parameters      |->
                     [f \in DOMAIN BaseDelta \cup {"scid"} |->
                         IF f = "scid" THEN scid ELSE BaseDelta[f]],
                 state           |-> D1,
                 proof           |-> <<>>,
                 last_version_id |-> last]
        link == IF over = "scid" /\ IsSome(scid) THEN Unwrap(scid) ELSE last
        hash == IF over = "junk" THEN "QmJunk"
                ELSE multihash_base58(
                         jcs_canonicalize([body EXCEPT !.version_id = link]))
    IN  [body EXCEPT !.version_id = <<num, hash>>, !.proof = proof]
HashEntries ==
    {HashEntry(num, scid, last, proof, over) :
        num \in HashNumbers, scid \in HashScids,
        last \in HashLastVersionIds, proof \in HashProofs,
        over \in HashedOver}

InitEntryHash ==
    /\ NoCall
    /\ input \in HashEntries
    /\ output = None

\* verify_entry_hash(&entry)
VerifyEntryHash ==
    /\ output = None
    /\ output' = Some(verify_entry_hash(input))
    /\ UNCHANGED <<input, now, call_vars, tasks, resolvers>>

\* The caller changes entry.last_version_id and verifies again.
ChangeLastVersionId(last) ==
    /\ output # None
    /\ last # input.last_version_id
    /\ input' = [input EXCEPT !.last_version_id = last]
    /\ output' = Some(verify_entry_hash(input'))
    /\ UNCHANGED <<now, call_vars, tasks, resolvers>>

\* The caller changes entry.proof and verifies again.
ChangeProof(proof) ==
    /\ output # None
    /\ proof # input.proof
    /\ input' = [input EXCEPT !.proof = proof]
    /\ output' = Some(verify_entry_hash(input'))
    /\ UNCHANGED <<now, call_vars, tasks, resolvers>>

NextEntryHash ==
    \/ VerifyEntryHash
    \/ \E last \in HashLastVersionIds : ChangeLastVersionId(last)
    \/ \E proof \in HashProofs : ChangeProof(proof)

SpecEntryHash == InitEntryHash /\ [][NextEntryHash]_vars

\* ------------------------------------------- the body of the HTTP response
\* fetch_did_log turns the text of a successful response into entries. A
\* line of the body is its text and, when that text is a JSON object, the
\* object: Some(record of its keys), else None.
Line(text, json) == [text |-> text, json |-> json]
BlankLine == Line("", None)
SpacesLine == Line("  ", None)
GarbageLine == Line("not json", None)
\* str::trim, on the texts of the lines modelled.
trim(text) == IF text \in {"", " ", "  "} THEN "" ELSE text

\* serde_json::from_str::<DIDLogEntry>(line): every serialized field of
\* DIDLogEntry is required (none has a default).
from_str(line) ==
    IF IsNone(line.json) THEN [err |-> "JsonError"]
    ELSE IF {"versionId", "versionTime", "parameters", "state", "proof"}
                \subseteq DOMAIN Unwrap(line.json)
         THEN [ok |-> DeserializeEntry(Unwrap(line.json))]
    ELSE [err |-> "JsonError"]

\* The tail of fetch_did_log: lines(), filter out the blank ones, map
\* from_str, collect into a Result (the first Err wins), map_err to
\* InvalidDIDLog.
parse_log_content(lines) ==
    LET present(line) == trim(line.text) # ""
        kept == SelectSeq(lines, present)
    IN  IF \E i \in 1..Len(kept) : "err" \in DOMAIN from_str(kept[i])
        THEN [err |-> "InvalidDIDLog"]
        ELSE [ok |-> [i \in 1..Len(kept) |-> from_str(kept[i]).ok]]

\* A resolve that deserializes a line only when its loop reaches it.
resolve_content_line_by_line(self, lines, options, utc_now) ==
    LET present(line) == trim(line.text) # ""
        kept == SelectSeq(lines, present)
        bad  == {i \in 1..Len(kept) : "err" \in DOMAIN from_str(kept[i])}
        stop == IF bad = {} THEN Len(kept) + 1
                ELSE CHOOSE i \in bad : \A j \in bad : i <= j
        head == [i \in 1..(stop - 1) |-> from_str(kept[i]).ok]
    IN  IF bad = {} THEN resolve_fetched(self, head, options, utc_now)
        ELSE \* the lines before the bad one are processed first
             CHOOSE r \in
                 {IF out.res # "Ok" THEN Ret([err |-> out.res], out.self)
                  ELSE Ret([err |-> "InvalidDIDLog"], out.self) :
                      out \in {process_entries(self, head, utc_now)}} : TRUE
\* Resolver::resolve from the arrival of a successful response on: the rest
\* of fetch_did_log, whose error returns from resolve (?), then the loop
\* and the selection.
resolve_content(self, lines, options, utc_now) ==
    LET fetched == parse_log_content(lines)
    IN  IF "err" \in DOMAIN fetched THEN Ret(fetched, self)
        ELSE resolve_fetched(self, fetched.ok, options, utc_now)

\* Most lines in a response body.
MaxLines == 3

\* Lines a body is made of: blank, spaces, not JSON, a JSON object without
\* "proof", and the lines of the served logs.
BodyLines ==
    LET log == CHOOSE l \in ServedLogs(TaskDid) :
                   Len(l) = 2 /\ l[2].version_id[2] # "QmJunk"
        bad == CHOOSE l \in ServedLogs(TaskDid) :
                   Len(l) = 2 /\ l[2].version_id[2] = "QmJunk"
        genesis == LineOf(log[1])
    IN  {BlankLine, SpacesLine, GarbageLine,
         Line("{...}", Some([f \in DOMAIN genesis \ {"proof"} |-> genesis[f]])),
         Line("{...}", Some(genesis)),
         Line("{...}", Some(LineOf(log[2]))),
         Line("{...}", Some(LineOf(bad[2])))}
RECURSIVE Bodies(_)
Bodies(n) ==
    IF n = 0 THEN {<<>>}
    ELSE Bodies(n - 1)
         \cup {Append(b, l) : b \in {x \in Bodies(n - 1) : Len(x) = n - 1},
                              l \in BodyLines}

InitContent ==
    /\ NoCall
    /\ input \in Bodies(MaxLines)
    /\ output = None

\* The response arrives and resolve_did runs to its return.
ResolveContent ==
    /\ output = None
    /\ output' = Some(resolve_content(NewResolver, input, None, now))
    /\ UNCHANGED <<input, now, call_vars, tasks, resolvers>>

\* The clock advances before the response arrives.
ContentTick ==
    /\ output = None
    /\ now < MaxTime
    /\ now' = now + 1
    /\ UNCHANGED <<input, output, call_vars, tasks, resolvers>>

NextContent ==
    \/ ResolveContent
    \/ ContentTick

SpecContent == InitContent /\ [][NextContent]_vars

\* ------------------------------------------------------------------ did.rs
\* An identifier string is a sequence of tokens: the separators ":" and "/"
\* and separator-free chunks of text (a port is written digit by digit).
\* Str is the string itself.
RECURSIVE Str(_)
Str(tokens) == IF tokens = <<>> THEN "" ELSE Head(tokens) \o Str(Tail(tokens))

\* str::split(sep), collected: the pieces between the separators.
RECURSIVE Split(_, _)
Split(tokens, sep) ==
    IF \A i \in 1..Len(tokens) : tokens[i] # sep THEN <<tokens>>
    ELSE LET at == CHOOSE i \in 1..Len(tokens) :
                       /\ tokens[i] = sep
                       /\ \A j \in 1..(i - 1) : tokens[j] # sep
         IN  <<SubSeq(tokens, 1, at - 1)>>
             \o Split(SubSeq(tokens, at + 1, Len(tokens)), sep)
\* [T].join(sep)
RECURSIVE Join(_, _)
Join(parts, sep) ==
    IF Len(parts) = 0 THEN <<>>
    ELSE IF Len(parts) = 1 THEN parts[1]
    ELSE parts[1] \o <<sep>> \o Join(Tail(parts), sep)

\* u16::MAX
U16_MAX == 65535
\* str::parse::<u16>(): an optional '+', then at least one decimal digit,
\* the value checked against u16::MAX as it is accumulated.
RECURSIVE DecimalU16(_, _)
DecimalU16(chars, acc) ==
    IF chars = <<>> THEN Some(acc)
    ELSE IF \A d \in 0..9 : ToString(d) # Head(chars) THEN None
    ELSE LET next == acc * 10 + (CHOOSE d \in 0..9 : ToString(d) = Head(chars))
         IN  IF next > U16_MAX THEN None ELSE DecimalU16(Tail(chars), next)
parse_u16(chars) ==
    LET digits == IF chars # <<>> /\ Head(chars) = "+" THEN Tail(chars)
                  ELSE chars
    IN  IF digits = <<>> THEN None ELSE DecimalU16(digits, 0)

\* A parse that accepts any method name in place of "tdw".
parse_any_method(did_text) ==
    LET parts == Split(did_text, ":")
        domain_and_rest == Join(SubSeq(parts, 4, Len(parts)), ":")
        domain_parts == Split(domain_and_rest, "/")
        domain_and_port == domain_parts[1]
        path == IF Len(domain_parts) > 1
                THEN Some(Str(Join(Tail(domain_parts), "/"))) ELSE None
        dp == Split(domain_and_port, ":")
    IN  IF Len(parts) < 4 \/ Str(parts[1]) # "did"
        THEN [err |-> "InvalidDIDFormat"]
        ELSE IF Len(dp) > 1
        THEN IF IsNone(parse_u16(dp[2])) THEN [err |-> "InvalidDIDFormat"]
             ELSE [ok |-> [scid |-> <<Str(parts[3])>>, domain |-> Str(dp[1]),
                           port |-> parse_u16(dp[2]), path |-> path]]
        ELSE [ok |-> [scid |-> <<Str(parts[3])>>,
                      domain |-> Str(domain_and_port),
                      port |-> None, path |-> path]]
\* TdwDid::parse
parse(did_text) ==
    LET parts == Split(did_text, ":")
        domain_and_rest == Join(SubSeq(parts, 4, Len(parts)), ":")
        \* splitn(2, '/'): the text before the first '/', and the rest
        domain_parts == Split(domain_and_rest, "/")
        domain_and_port == domain_parts[1]
        path == IF Len(domain_parts) > 1
                THEN Some(Str(Join(Tail(domain_parts), "/"))) ELSE None
        dp == Split(domain_and_port, ":")
    IN  IF Len(parts) < 4 \/ Str(parts[1]) # "did" \/ Str(parts[2]) # "tdw"
        THEN [err |-> "InvalidDIDFormat"]
        ELSE IF Len(dp) > 1     \* domain_and_port.contains(':')
        THEN IF IsNone(parse_u16(dp[2])) THEN [err |-> "InvalidDIDFormat"]
             ELSE [ok |-> [scid |-> <<Str(parts[3])>>, domain |-> Str(dp[1]),
                           port |-> parse_u16(dp[2]), path |-> path]]
        ELSE [ok |-> [scid |-> <<Str(parts[3])>>,
                      domain |-> Str(domain_and_port),
                      port |-> None, path |-> path]]

\* Url::parse of the text "https://<host><port part><path>" that to_url
\* builds, for a non-empty host: the url crate drops the port of a URL
\* whose port is the default of its scheme, 443 for https, and keeps the
\* rest of these texts as written. The value is the URL's serialization
\* (Url::as_str).
HTTPS_DEFAULT_PORT == 443
url_parse_https(host, port, path) ==
    [ok |-> "https://" \o host
            \o (IF IsSome(port) /\ Unwrap(port) # HTTPS_DEFAULT_PORT
                THEN ":" \o ToString(Unwrap(port)) ELSE "")
            \o path]
\* TdwDid::to_url
to_url(tdw_did) ==
    url_parse_https(tdw_did.domain, tdw_did.port,
                    (IF IsSome(tdw_did.path)
                     THEN "/" \o Unwrap(tdw_did.path) ELSE "/.well-known")
                    \o "/did.jsonl")

\* Strings parse is called with: a method part, then optionally a scid, a
\* host, a port and a path, each possibly empty.
DidMethods == {<<"did", ":", "tdw">>, <<"did", ":", "web">>, <<"tdw">>}
DidScids == {None, Some(<<>>), Some(<<"abc123">>)}
DidHosts == {None, Some(<<>>), Some(<<"example.com">>)}
DidPorts ==
    {None, Some(<<>>), Some(<<"8", "0", "8", "0">>), Some(<<"0">>),
     Some(<<"4", "4", "3">>), Some(<<"6", "5", "5", "3", "5">>),
     Some(<<"6", "5", "5", "3", "6">>), Some(<<"0", "8", "0">>),
     Some(<<"+", "8", "0">>), Some(<<"x">>),
     Some(<<"8", "0", ":", "extra">>)}
DidPaths == {None, Some(<<>>), Some(<<"path">>), Some(<<"path", "/", "to">>),
             Some(<<"pa", ":", "th">>)}
DidString(method, scid, host, port, path) ==
    method
    \o (IF IsSome(scid) THEN <<":">> \o Unwrap(scid) ELSE <<>>)
    \o (IF IsSome(host) THEN <<":">> \o Unwrap(host) ELSE <<>>)
    \o (IF IsSome(port) THEN <<":">> \o Unwrap(port) ELSE <<>>)
    \o (IF IsSome(path) THEN <<"/">> \o Unwrap(path) ELSE <<>>)
DidStrings ==
    {DidString(method, scid, host, port, path) :
        method \in DidMethods, scid \in DidScids, host \in DidHosts,
        port \in DidPorts, path \in DidPaths}

InitParse ==
    /\ NoCall
    /\ input \in DidStrings
    /\ output = None

\* TdwDid::parse(did)
Parse ==
    /\ output = None
    /\ output' = Some([parsed |-> parse(input), text |-> None, url |-> None])
    /\ UNCHANGED <<input, now, call_vars, tasks, resolvers>>

\* tdw_did.to_string() on the parsed identifier
DidToString ==
    /\ IsSome(output)
    /\ "ok" \in DOMAIN Unwrap(output).parsed
    /\ IsNone(Unwrap(output).text)
    /\ output' = Some([Unwrap(output) EXCEPT
                           !.text = Some(to_string(Unwrap(output).parsed.ok))])
    /\ UNCHANGED <<input, now, call_vars, tasks, resolvers>>

\* tdw_did.to_url() on the parsed identifier, when it has a host
ToUrl ==
    /\ IsSome(output)
    /\ "ok" \in DOMAIN Unwrap(output).parsed
    /\ Unwrap(output).parsed.ok.domain # ""
    /\ IsNone(Unwrap(output).url)
    /\ output' = Some([Unwrap(output) EXCEPT
                           !.url = Some(to_url(Unwrap(output).parsed.ok))])
    /\ UNCHANGED <<input, now, call_vars, tasks, resolvers>>

NextParse ==
    \/ Parse
    \/ DidToString
    \/ ToUrl

SpecParse == InitParse /\ [][NextParse]_vars

\* ---------------------------------------------------- reading a behaviour
\* The step is an iteration of the loop: it took the next entry of the log.
Took == Len(did_log') = Len(did_log) + 1
\* The entry the step took.
Taken == did_log'[Len(did_log')]
\* The step committed the entry it took.
CommittedStep ==
    /\ Took
    /\ Len(processed_documents') = Len(processed_documents) + 1
\* The step rejected the entry it took with error e, committing nothing.
RejectedWith(e) ==
    /\ Took
    /\ pc' = "returned"
    /\ result' = Some([err |-> e])
    /\ processed_documents' = processed_documents
    /\ current_version' = current_version
\* The first error of the results of successive steps, or "Ok".
FirstError(rs) ==
    LET bad == {i \in 1..Len(rs) : rs[i] # "Ok"}
    IN  IF bad = {} THEN "Ok"
        ELSE rs[CHOOSE i \in bad : \A j \in bad : i <= j]
\* The results of the steps that process_log_entry runs on entry e before
\* the pre-rotation check, in the order it runs them.
StepsBeforePreRotation(e) ==
    LET up == update_parameters(Self, e.parameters)
        s  == up.self
    IN  <<up.res,
          verify_version_sequence(s, e),
          verify_entry_hash(e),
          verify_version_time(s, e, now),
          IF s.current_version = 0
          THEN IF IsNone(s.active_parameters.scid) THEN "InvalidSCID"
               ELSE verify_scid(Unwrap(s.active_parameters.scid), e)
          ELSE "Ok">>
\* The results of all the steps of process_log_entry on entry e, each step
\* run on the Resolver as the parameter reduction left it.
PipelineSteps(e) ==
    LET s == update_parameters(Self, e.parameters).self
    IN  StepsBeforePreRotation(e)
        \o <<IF s.pre_rotation_active THEN verify_pre_rotation(s, e)
              ELSE "Ok",
             verify_proof(e, s.active_parameters)>>
\* resolve has returned the error e.
Returned(e) == pc = "returned" /\ result = Some([err |-> e])
\* The versionId is "<unsigned integer>-<hash>".
WellFormedId(version_id) ==
    Len(version_id) = 2 /\ IsSome(ParseU64(version_id[1]))

\* ------------------------------------------------------------------ claims

\* C1. Hash chain: the hash of every committed entry k > 1 is the hash of the
\* entry with its versionId replaced by the full versionId of committed
\* entry k-1, and that of entry 1 with its versionId replaced by the SCID;
\* an entry hashed over another predecessor value is never committed.
C1_HashChain ==
    \A k \in 1..Len(processed_documents) :
        LET link == IF k = 1 THEN Unwrap(did_log[1].parameters.scid)
                    ELSE processed_documents[k - 1][1]
        IN  did_log[k].version_id[2] =
                calculate_entry_hash([did_log[k] EXCEPT !.version_id = link])

\* C2. Genesis self-certification against the identifier: the genesis entry
\* is committed only if the SCID recomputed from it equals the scid of the
\* identifier being resolved and the scid of the entry's parameters.
C2_GenesisScidIsIdentifierScid ==
    Len(processed_documents) >= 1 =>
        /\ generate_scid(did_log[1]) = Unwrap(did).scid
        /\ did_log[1].parameters.scid = Some(Unwrap(did).scid)

\* C3. Pre-rotation key check: when pre-rotation is active and entry k > 1
\* declares updateKeys, it is committed only if the hash of every declared
\* key is in the nextKeyHashes in force before the entry's own parameters
\* were applied.
C3_KeysPreRotatedInPreviousEntry ==
    [][(/\ CommittedStep
        /\ current_version > 0
        /\ pre_rotation_active
        /\ IsSome(Taken.parameters.update_keys))
       => \A key \in SetOf(Unwrap(Taken.parameters.update_keys)) :
              generate_key_hash(key) \in next_key_hashes]_vars

\* C4. Version sequence: the k-th triple of the processed history has a
\* versionId whose integer prefix is k. An entry that reaches the sequence
\* check (its parameters were reduced without error) is rejected with
\* InvalidVersionId when its versionId is not "<unsigned integer>-<hash>",
\* and with InvalidVersionNumber when its number is not the counter plus 1.
C4_VersionSequence ==
    [][Took =>
        \A e \in {Taken} :
        \A up \in {update_parameters(Self, e.parameters)} :
            /\ \A k \in 1..Len(processed_documents') :
                   /\ WellFormedId(processed_documents'[k][1])
                   /\ ParseU64(processed_documents'[k][1][1]) = Some(k)
            /\ (up.res = "Ok" /\ ~WellFormedId(e.version_id))
                   => RejectedWith("InvalidVersionId")
            /\ (/\ up.res = "Ok"
                /\ WellFormedId(e.version_id)
                /\ Unwrap(ParseU64(e.version_id[1])) # current_version + 1)
                   => RejectedWith("InvalidVersionNumber")]_vars
\* A second entry was rejected for its number.
C4_Witness ==
    /\ Returned("InvalidVersionNumber")
    /\ Len(processed_documents) = 1
    /\ ParseU64(did_log[2].version_id[1]) # Some(2)

\* C5. Monotone time: the versionTime values of the processed history are
\* strictly increasing. An entry whose versionTime is not later than that of
\* the last committed entry is rejected, with InvalidVersionTime unless a
\* step before the time check (reduction, sequence, hash) fails first.
C5_MonotoneTime ==
    [][Took =>
        \A e \in {Taken}, docs \in {processed_documents} :
        \A up \in {update_parameters(Self, e.parameters)} :
        \A first \in {FirstError(<<up.res,
                                   verify_version_sequence(up.self, e),
                                   verify_entry_hash(e),
                                   "InvalidVersionTime">>)} :
            /\ \A i, j \in 1..Len(processed_documents') :
                   i < j => processed_documents'[i][2]
                                < processed_documents'[j][2]
            /\ (Len(docs) > 0 /\ e.version_time <= docs[Len(docs)][2])
                   => RejectedWith(first)]_vars
\* A second entry that repeats the time of the first was rejected for it.
C5_Witness ==
    /\ Returned("InvalidVersionTime")
    /\ Len(processed_documents) = 1
    /\ did_log[2].version_time = processed_documents[1][2]

\* C6. No-future: an entry is committed only if its versionTime is at most
\* the clock read at its time check. An entry whose versionTime is later than
\* the clock is rejected: with InvalidVersionTime when it is also not later
\* than its predecessor, else with FutureVersionTime, unless a step before
\* the time check fails first.
C6_NoFuture ==
    [][Took =>
        \A e \in {Taken}, docs \in {processed_documents} :
        \A up \in {update_parameters(Self, e.parameters)} :
        \A first \in {FirstError(<<up.res,
                                   verify_version_sequence(up.self, e),
                                   verify_entry_hash(e),
                                   IF Len(docs) > 0
                                      /\ e.version_time
                                             <= docs[Len(docs)][2]
                                   THEN "InvalidVersionTime"
                                   ELSE "FutureVersionTime">>)} :
            /\ CommittedStep => e.version_time <= now
            /\ e.version_time > now => RejectedWith(first)]_vars
\* An entry later than its predecessor and than the clock was rejected.
C6_Witness ==
    /\ Returned("FutureVersionTime")
    /\ Len(processed_documents) = 1
    /\ did_log[2].version_time > now

\* C7. SCID immutability: after the genesis entry no committed entry carries
\* another scid, and while every entry taken was committed the active scid
\* is the one the genesis entry established.
C7_ScidNeverChanges ==
    (Len(processed_documents) >= 1
     /\ Len(did_log) = Len(processed_documents))
        => /\ \A k \in 2..Len(processed_documents) :
                  IsSome(did_log[k].parameters.scid)
                      => did_log[k].parameters.scid
                             = did_log[1].parameters.scid
           /\ active_parameters.scid = did_log[1].parameters.scid

\* C8. Pre-rotation monotonicity: once pre-rotation is active it stays
\* active, and an entry that declares prerotation = false while it is active
\* is rejected with CannotDeactivatePreRotation.
C8_PreRotationMonotone ==
    [][/\ pre_rotation_active => pre_rotation_active'
       /\ (/\ Took
           /\ pre_rotation_active
           /\ Taken.parameters.prerotation = Some(FALSE))
              => RejectedWith("CannotDeactivatePreRotation")]_vars
\* An entry tried to switch pre-rotation off after an entry switched it on.
C8_Witness ==
    /\ Returned("CannotDeactivatePreRotation")
    /\ pre_rotation_active
    /\ did_log[1].parameters.prerotation = Some(TRUE)
    /\ did_log[2].parameters.prerotation = Some(FALSE)

\* C9. Portability is genesis-only: while every entry taken was committed,
\* the active value of portable is the one the genesis entry declared.
C9_PortableGenesisOnly ==
    (Len(processed_documents) >= 1
     /\ Len(did_log) = Len(processed_documents))
        => active_parameters.portable = did_log[1].parameters.portable

\* C10. When pre-rotation is active and the entry declares updateKeys, the
\* entry is committed only if it declares a non-empty nextKeyHashes.
C10_NextKeyHashesNonEmpty ==
    [][(/\ CommittedStep
        /\ pre_rotation_active'
        /\ IsSome(Taken.parameters.update_keys))
       => /\ IsSome(Taken.parameters.next_key_hashes)
          /\ Len(Unwrap(Taken.parameters.next_key_hashes)) > 0]_vars

\* C11, as claimed. Genesis exemption: the genesis entry is never rejected
\* with KeyNotPreRotated, and a genesis entry for which pre-rotation is
\* active and that declares no nextKeyHashes is rejected, with
\* MissingNextKeyHashes unless an earlier step fails first.
C11_GenesisMustDeclareNextKeyHashes ==
    [][(Took /\ current_version = 0) =>
        \A e \in {Taken} :
        \A steps \in {StepsBeforePreRotation(e)
                          \o <<"MissingNextKeyHashes">>} :
            /\ ~RejectedWith("KeyNotPreRotated")
            /\ (/\ update_parameters(Self, e.parameters).self
                        .pre_rotation_active
                /\ IsNone(e.parameters.next_key_hashes))
                   => RejectedWith(FirstError(steps))]_vars

\* C11, amended. The genesis entry is never rejected with KeyNotPreRotated,
\* and a genesis entry for which pre-rotation is active, that declares
\* updateKeys and that declares no nextKeyHashes is rejected, with
\* MissingNextKeyHashes unless an earlier step fails first.
C11_GenesisExemption ==
    [][(Took /\ current_version = 0) =>
        \A e \in {Taken} :
        \A steps \in {StepsBeforePreRotation(e)
                          \o <<"MissingNextKeyHashes">>} :
            /\ ~RejectedWith("KeyNotPreRotated")
            /\ (/\ update_parameters(Self, e.parameters).self
                        .pre_rotation_active
                /\ IsSome(e.parameters.update_keys)
                /\ IsNone(e.parameters.next_key_hashes))
                   => RejectedWith(FirstError(steps))]_vars
\* A genesis entry that switches pre-rotation on and declares keys that no
\* entry pre-rotated, and no nextKeyHashes, was rejected for the latter.
C11_Witness ==
    /\ Returned("MissingNextKeyHashes")
    /\ Len(did_log) = 1
    /\ did_log[1].parameters.prerotation = Some(TRUE)
    /\ IsSome(did_log[1].parameters.update_keys)
    /\ IsNone(did_log[1].parameters.next_key_hashes)

\* C12. Every document that resolve returns has an id equal to the
\* identifier that was resolved.
C12_DocumentIdIsIdentifier ==
    (pc = "returned" /\ "ok" \in DOMAIN Unwrap(result))
        => Unwrap(result).ok.id = to_string(Unwrap(did))

\* C13. Abort on first failure: when a step of the entry taken fails,
\* resolve returns that step's error; the Resolver is left as the parameter
\* reduction left it, nothing is appended to the processed history, the
\* counter is not incremented and no document is selected; and once resolve
\* has returned, no entry is taken and nothing changes.
C13_AbortOnFirstFailure ==
    [][/\ Took =>
            \A e \in {Taken} :
            \A up \in {update_parameters(Self, e.parameters)},
               first \in {FirstError(PipelineSteps(e))} :
                first # "Ok" =>
                    /\ pc' = "returned"
                    /\ result' = Some([err |-> first])
                    /\ processed_documents' = processed_documents
                    /\ current_version' = current_version
                    /\ active_parameters' = up.self.active_parameters
                    /\ pre_rotation_active' = up.self.pre_rotation_active
                    /\ next_key_hashes' = up.self.next_key_hashes
                    /\ call_options' = None
       /\ pc = "returned" => UNCHANGED vars]_vars
\* The second entry of a log failed after the first was committed.
C13_Witness ==
    /\ pc = "returned"
    /\ "err" \in DOMAIN Unwrap(result)
    /\ Len(did_log) = 2
    /\ Len(processed_documents) = 1
    /\ current_version = 1

\* C14. Deterministic error order: the entry taken is rejected with the
\* error of the earliest failing step in the order reduce parameters,
\* version sequence, entry hash, version time, genesis SCID, pre-rotation,
\* proof structure, whatever the later steps would report.
C14_ErrorOrder ==
    [][Took =>
        \A steps \in {PipelineSteps(Taken)} :
            \A i \in 1..Len(steps) :
                (steps[i] # "Ok" /\ \A j \in 1..(i - 1) : steps[j] = "Ok")
                    => RejectedWith(steps[i])]_vars
\* An entry with a wrong version number and a wrong hash was rejected for
\* its number.
C14_Witness ==
    /\ Returned("InvalidVersionNumber")
    /\ did_log[Len(did_log)].version_id[2] = "QmJunk"

\* C15. Idempotence on one Resolver: a call of resolve that resolves the
\* same identifier, with the same options and the same fetched log as the
\* call before it returns what that call returned, unless the clock made
\* one of them refuse an entry as being in the future.
C15_SecondResolveReturnsTheSame ==
    (/\ pc = "returned"
     /\ previous # <<>>
     /\ result # Some([err |-> "FutureVersionTime"])
     /\ previous[Len(previous)].result # [err |-> "FutureVersionTime"])
        => Unwrap(result) = previous[Len(previous)].result

\* C16: concurrent resolve_did calls are isolated. A step of one call
\* changes neither the record nor the Resolver (counter, active parameters,
\* pre-rotation state, processed history) of another call, and a call that
\* has returned returned what the same call returns when it runs alone on a
\* new Resolver: with the same options, the same fetch outcome and the same
\* clock.
C16_CallIsolation ==
    [][/\ \A a, b \in 1..MaxTasks :
              (a # b /\ tasks'[a] # tasks[a]) =>
                  /\ tasks'[b] = tasks[b]
                  /\ resolvers'[b] = resolvers[b]
       /\ \A a \in 1..MaxTasks :
              (tasks'[a].pc = "returned" /\ tasks[a].pc = "fetching") =>
                  \/ /\ tasks'[a].result \in
                            {Some([err |-> e]) : e \in FetchErrors}
                     /\ tasks'[a].did_log = <<>>
                  \/ tasks'[a].result =
                         Some(resolve_fetched(NewResolver, tasks'[a].did_log,
                                              Unwrap(tasks'[a].options),
                                              tasks'[a].at).res)]_vars
\* Two calls were in progress together; one has returned a document with
\* two versions behind it while the other is still suspended in its fetch,
\* its Resolver untouched.
C16_Witness ==
    /\ \E a, b \in 1..MaxTasks :
           /\ a # b
           /\ tasks[a].pc = "returned"
           /\ "ok" \in DOMAIN Unwrap(tasks[a].result)
           /\ resolvers[a].current_version = 2
           /\ tasks[b].pc = "fetching"
           /\ resolvers[b] = NewResolver

\* The call has returned from the selection: it read its options, and the
\* value is what the caller passed in the Some(opts) arm.
SelectedWith ==
    IF pc = "returned" /\ IsSome(call_options)
                       /\ IsSome(Unwrap(call_options))
    THEN Some(Unwrap(Unwrap(call_options)))
    ELSE None
\* The call has returned from the selection with no options at all.
SelectedWithNone ==
    pc = "returned" /\ IsSome(call_options) /\ IsNone(Unwrap(call_options))

\* C17: selection by time. When resolve selects by a time t (versionTime
\* set, versionId not), it returns the document of the processed entry with
\* the greatest versionTime that is <= t, and VersionNotFound when no
\* entry has one, which is the case when the history is empty or t is
\* earlier than the first entry's versionTime.
C17_SelectionByTime ==
    \A opts \in {o \in {SelectedWith} : IsSome(o)} :
        (IsNone(opts[1].version_id) /\ IsSome(opts[1].version_time)) =>
            LET t    == Unwrap(opts[1].version_time)
                docs == processed_documents
                le   == {i \in 1..Len(docs) : docs[i][2] <= t}
            IN  /\ le # {} =>
                      \E i \in le :
                          /\ \A j \in le : docs[j][2] <= docs[i][2]
                          /\ result = Some([ok |-> docs[i][3]])
                /\ le = {} => result = Some([err |-> "VersionNotFound"])
                /\ (Len(docs) = 0 \/ t < docs[1][2]) =>
                      result = Some([err |-> "VersionNotFound"])
                /\ \A i \in 1..Len(docs) :
                      (t = docs[i][2]) => result = Some([ok |-> docs[i][3]])
\* A history of two entries with different documents was selected from by a
\* time not earlier than the second entry's, and the second document was
\* returned.
C17_Witness ==
    /\ IsSome(SelectedWith)
    /\ IsNone(Unwrap(SelectedWith).version_id)
    /\ IsSome(Unwrap(SelectedWith).version_time)
    /\ Len(processed_documents) = 2
    /\ processed_documents[1][3] # processed_documents[2][3]
    /\ processed_documents[2][2] <= Unwrap(Unwrap(SelectedWith).version_time)
    /\ result = Some([ok |-> processed_documents[2][3]])

\* C18: selection by versionId. When resolve selects by a versionId, it
\* returns the document of the processed entry whose versionId equals the
\* requested one, and VersionNotFound when no processed entry has it, the
\* empty history included.
C18_SelectionByVersionId ==
    \A opts \in {o \in {SelectedWith} : IsSome(o)} :
        IsSome(opts[1].version_id) =>
            LET v    == Unwrap(opts[1].version_id)
                docs == processed_documents
                hits == {i \in 1..Len(docs) : docs[i][1] = v}
            IN  /\ \A i \in hits : result = Some([ok |-> docs[i][3]])
                /\ hits = {} => result = Some([err |-> "VersionNotFound"])
\* A history of two entries was selected from by a versionId that none of
\* them has, and VersionNotFound was returned.
C18_Witness ==
    /\ IsSome(SelectedWith)
    /\ IsSome(Unwrap(SelectedWith).version_id)
    /\ Len(processed_documents) = 2
    /\ \A i \in 1..2 :
           processed_documents[i][1] # Unwrap(Unwrap(SelectedWith).version_id)
    /\ result = Some([err |-> "VersionNotFound"])

\* C19: when the options carry both a versionId and a versionTime, the
\* result is decided by the versionId alone: the document with that
\* versionId, or VersionNotFound when there is none, whatever the
\* versionTime would select.
C19_VersionIdWins ==
    \A opts \in {o \in {SelectedWith} : IsSome(o)} :
        (IsSome(opts[1].version_id) /\ IsSome(opts[1].version_time)) =>
            LET docs  == processed_documents
                named == {i \in 1..Len(docs) :
                             docs[i][1] = Unwrap(opts[1].version_id)}
            IN  IF named = {}
                THEN result = Some([err |-> "VersionNotFound"])
                ELSE \E i \in named : result = Some([ok |-> docs[i][3]])
\* Both were set, no entry had the versionId, an entry was not later than
\* the versionTime, and VersionNotFound was returned.
C19_Witness ==
    /\ IsSome(SelectedWith)
    /\ IsSome(Unwrap(SelectedWith).version_id)
    /\ IsSome(Unwrap(SelectedWith).version_time)
    /\ \E i \in 1..Len(processed_documents) :
           processed_documents[i][2]
               <= Unwrap(Unwrap(SelectedWith).version_time)
    /\ result = Some([err |-> "VersionNotFound"])

\* C20: latest selection. With no options, or with options in which
\* neither versionId nor versionTime is set, resolve returns the document
\* of the last processed entry, and NoDocumentFound when the log had no
\* entries.
C20_LatestSelection ==
    (\/ SelectedWithNone
     \/ /\ IsSome(SelectedWith)
        /\ IsNone(Unwrap(SelectedWith).version_id)
        /\ IsNone(Unwrap(SelectedWith).version_time)) =>
        LET docs == processed_documents
        IN  /\ Len(docs) > 0 => result = Some([ok |-> docs[Len(docs)][3]])
            /\ Len(did_log) = 0 => result = Some([err |-> "NoDocumentFound"])
\* Options with neither field set selected from a history of two entries
\* with different documents, and the second document was returned.
C20_Witness ==
    /\ IsSome(SelectedWith)
    /\ IsNone(Unwrap(SelectedWith).version_id)
    /\ IsNone(Unwrap(SelectedWith).version_time)
    /\ Len(processed_documents) = 2
    /\ processed_documents[1][3] # processed_documents[2][3]
    /\ result = Some([ok |-> processed_documents[2][3]])

\* The step took entry e and left the Resolver and the call as
\* process_log_entry leaves them on the entry with the proofs after the
\* first removed.
SameWithoutLaterProofs(e) ==
    \A out \in {process_log_entry(
                    Self, [e EXCEPT !.proof = <<e.proof[1]>>], now)} :
        /\ out.res = IF pc' = "returned" THEN Unwrap(result').err ELSE "Ok"
        /\ Len(out.self.processed_documents) = Len(processed_documents')
        /\ out.self.current_version = current_version'
        /\ out.self.active_parameters = active_parameters'
        /\ out.self.pre_rotation_active = pre_rotation_active'
        /\ out.self.next_key_hashes = next_key_hashes'
\* The proof list is non-empty and its first proof carries both fields.
FirstProofShaped(e) ==
    /\ Len(e.proof) > 0
    /\ e.proof[1].verification_method # ""
    /\ e.proof[1].proof_value # ""

\* C21 as stated. Proof structure: an entry is committed only if its proof
\* list is non-empty and the first proof's verificationMethod and proofValue
\* are both non-empty; an entry that passes every earlier step and is not
\* of that shape is rejected with InvalidProof; and the proofs after the
\* first do not influence the outcome of any entry.
C21_LaterProofsNeverInfluence ==
    [][Took =>
        \A e \in {Taken} :
            /\ CommittedStep => FirstProofShaped(e)
            /\ ~FirstProofShaped(e) =>
                 \A steps \in {PipelineSteps(e)} :
                     RejectedWith(FirstError(SubSeq(steps, 1, 6)
                                             \o <<"InvalidProof">>))
            /\ Len(e.proof) > 1 => SameWithoutLaterProofs(e)]_vars
\* C21, amended. Proof structure: an entry that passes every earlier step
\* is committed if its proof list is non-empty and the first proof's
\* verificationMethod and proofValue are both non-empty, and is rejected
\* with InvalidProof otherwise, so the proof check looks at the first proof
\* only; the proofs after the first do not influence the outcome of an
\* entry after the genesis. (The genesis SCID is computed over the entry
\* with all its proofs.)
C21_ProofStructure ==
    [][Took =>
        \A e \in {Taken} :
        \A steps \in {PipelineSteps(e)} :
            /\ CommittedStep => FirstProofShaped(e)
            /\ ~FirstProofShaped(e) =>
                 RejectedWith(FirstError(SubSeq(steps, 1, 6)
                                         \o <<"InvalidProof">>))
            /\ (FirstProofShaped(e) /\ FirstError(SubSeq(steps, 1, 6)) = "Ok")
                 => CommittedStep
            /\ (Len(e.proof) > 1 /\ current_version > 0)
                 => SameWithoutLaterProofs(e)]_vars
\* An entry after the genesis whose first proof is well-formed and whose
\* second proof has no verificationMethod was committed.
C21_Witness ==
    /\ Len(processed_documents) = 2
    /\ Len(did_log) = 2
    /\ did_log[2].proof = <<GoodProof, NoMethodProof>>

\* The hash of a copy of entry e whose proof list is emptied and whose
\* versionId is replaced by link.
HashOfCopy(e, link) ==
    multihash_base58(
        jcs_canonicalize([e EXCEPT !.proof = <<>>, !.version_id = link]))

\* C22. verify_entry_hash accepts an entry with versionId "n-h" exactly when
\* h is the hash of a copy of the entry whose proof list is emptied and
\* whose versionId is replaced by parameters.scid when n = 1 and by
\* lastVersionId when n > 1; changing the lastVersionId of an accepted entry
\* with n > 1 yields InvalidEntryHash; changing only the proofs never
\* changes the result.
C22_EntryHash ==
    [][output' # None =>
        \A e \in {input'} :
        \A n \in {IF Len(e.version_id) = 2 THEN ParseU64(e.version_id[1])
                  ELSE None} :
            /\ (IsSome(n) /\ Unwrap(n) = 1) =>
                 (output' = Some("Ok")
                    <=> /\ IsSome(e.parameters.scid)
                        /\ e.version_id[2]
                             = HashOfCopy(e, Unwrap(e.parameters.scid)))
            /\ (IsSome(n) /\ Unwrap(n) > 1) =>
                 (output' = Some("Ok")
                    <=> e.version_id[2] = HashOfCopy(e, e.last_version_id))
            /\ (/\ IsSome(n) /\ Unwrap(n) > 1
                /\ output = Some("Ok")
                /\ e.last_version_id # input.last_version_id
                /\ e = [input EXCEPT !.last_version_id = e.last_version_id])
                 => output' = Some("InvalidEntryHash")
            /\ (/\ output # None
                /\ e = [input EXCEPT !.proof = e.proof])
                 => output' = output]_vars
\* An entry numbered 2 that carries proofs and was built over its
\* last_version_id "1-QmFirst" has been accepted.
C22_Witness ==
    /\ output = Some("Ok")
    /\ input.version_id[1] = "2"
    /\ input.last_version_id = <<"1", "QmFirst">>
    /\ Len(input.proof) = 2

\* The line is neither blank nor made of whitespace.
Remains(line) == line.text \notin {"", "  "}
\* The line is a JSON object with every key of a log entry.
Deserializes(line) ==
    /\ IsSome(line.json)
    /\ \A key \in {"versionId", "versionTime", "parameters", "state",
                   "proof"} : key \in DOMAIN Unwrap(line.json)

\* C23. Log deserialization is all-or-nothing: blank and whitespace-only
\* lines are discarded, and if any remaining line of the body fails to
\* deserialize, resolve fails with InvalidDIDLog and its Resolver has
\* reduced and committed nothing, whatever the lines before the bad one;
\* otherwise resolve returns what it returns on the remaining lines.
C23_AllOrNothing ==
    IsSome(output) =>
        LET remaining == SelectSeq(input, Remains)
        IN  IF \E i \in 1..Len(remaining) : ~Deserializes(remaining[i])
            THEN Unwrap(output) = Ret([err |-> "InvalidDIDLog"], NewResolver)
            ELSE Unwrap(output)
                     = resolve_fetched(
                           NewResolver,
                           [i \in 1..Len(remaining) |->
                               DeserializeEntry(Unwrap(remaining[i].json))],
                           None, now)
\* A body of a valid genesis line, a blank line and a line that is not
\* JSON was refused with InvalidDIDLog.
C23_Witness ==
    /\ IsSome(output)
    /\ Len(input) = 3
    /\ Deserializes(input[1])
    /\ input[2] = BlankLine
    /\ input[3] = GarbageLine
    /\ Unwrap(output).res = [err |-> "InvalidDIDLog"]

\* The string begins with "did:tdw:".
BeginsWithDidTdw(s) ==
    Len(s) >= 4 /\ SubSeq(s, 1, 4) = <<"did", ":", "tdw", ":">>
\* After the prefix "did:tdw:" the string has a scid segment and a host
\* segment: two segments separated by a colon.
HasScidAndHost(s) == \E i \in 5..Len(s) : s[i] = ":"
\* parse has returned InvalidDIDFormat for the input.
ParseRefused ==
    IsSome(output) /\ Unwrap(output).parsed = [err |-> "InvalidDIDFormat"]
\* parse has returned an identifier for the input.
ParseAccepted == IsSome(output) /\ "ok" \in DOMAIN Unwrap(output).parsed

\* C24. parse returns InvalidDIDFormat for every string that does not begin
\* with "did:tdw:" or that does not carry both a scid segment and a host
\* segment after that prefix, as for "did:web:example.com",
\* "did:tdw:example.com", "did:tdw:abc123" and "tdw:abc123:example.com".
C24_InvalidFormat ==
    IsSome(output) =>
        /\ (~BeginsWithDidTdw(input) \/ ~HasScidAndHost(input))
              => ParseRefused
        /\ Str(input) \in {"did:web:example.com", "did:tdw:example.com",
                           "did:tdw:abc123", "tdw:abc123:example.com"}
              => ParseRefused
\* "did:web:abc123:example.com", which has four segments and another
\* method, was refused.
C24_Witness ==
    /\ ParseRefused
    /\ Str(input) = "did:web:abc123:example.com"

\* C25. Parser round-trip: for every string that parse accepts, the
\* to_string of the parsed identifier is the string, byte for byte.
C25_RoundTrip ==
    (ParseAccepted /\ IsSome(Unwrap(output).text))
        => Unwrap(Unwrap(output).text) = Str(input)

\* C26. Every identifier returned by parse has a non-empty scid and a
\* non-empty host; "did:tdw::example.com" and "did:tdw:abc123:" are
\* refused.
C26_ScidAndHostNonEmpty ==
    /\ ParseAccepted =>
          /\ Text(Unwrap(output).parsed.ok.scid) # ""
          /\ Unwrap(output).parsed.ok.domain # ""
    /\ (IsSome(output)
        /\ Str(input) \in {"did:tdw::example.com", "did:tdw:abc123:"})
          => ParseRefused

\* C27. Port validation: an identifier that parse returns with a port has a
\* port in the range 1 to 65535; a port text of 0 is refused.
C27_PortRange ==
    ParseAccepted =>
        \A port \in {Unwrap(output).parsed.ok.port} :
            IsSome(port) => Unwrap(port) \in 1..65535

\* C28. Log URL derivation: for every parsed identifier, to_url is
\* https://<host>[:<port>]/<path>/did.jsonl when a path is present and
\* https://<host>[:<port>]/.well-known/did.jsonl otherwise, with the port
\* included exactly when the identifier has one.
C28_LogUrl ==
    (ParseAccepted /\ IsSome(Unwrap(output).url)) =>
        \A id \in {Unwrap(output).parsed.ok} :
            Unwrap(Unwrap(output).url)
                = [ok |-> "https://" \o id.domain
                          \o (IF IsSome(id.port)
                              THEN ":" \o ToString(Unwrap(id.port)) ELSE "")
                          \o (IF IsSome(id.path)
                              THEN "/" \o Unwrap(id.path) \o "/did.jsonl"
                              ELSE "/.well-known/did.jsonl")]

\* The entry declares prerotation = false while pre-rotation is active: the
\* reducer refuses it before it looks at portable.
DeactivatesPreRotation(e) ==
    /\ IsSome(e.parameters.prerotation)
    /\ ~Unwrap(e.parameters.prerotation)
    /\ pre_rotation_active

C30_ParameterInheritance ==
    [][Took =>
        \A e \in {Taken} :
            /\ \A f \in {"scid", "update_keys", "prerotation",
                         "next_key_hashes", "portable", "deactivated",
                         "ttl"} :
                   IsNone(e.parameters[f])
                       => active_parameters'[f] = active_parameters[f]
            /\ IsNone(e.parameters.prerotation)
                   => pre_rotation_active' = pre_rotation_active
            /\ IsNone(e.parameters.next_key_hashes)
                   => next_key_hashes' = next_key_hashes
            /\ active_parameters'.method = e.parameters.method]_vars
\* After a genesis that set update keys, pre-rotation and key hashes, a
\* second entry that omits them and carries another method was committed,
\* and the values of the genesis are in force.
C30_Witness ==
    /\ Len(processed_documents) = 2
    /\ Len(did_log) = 2
    /\ IsSome(did_log[1].parameters.update_keys)
    /\ IsSome(did_log[1].parameters.next_key_hashes)
    /\ IsNone(did_log[2].parameters.update_keys)
    /\ IsNone(did_log[2].parameters.prerotation)
    /\ IsNone(did_log[2].parameters.next_key_hashes)
    /\ active_parameters.update_keys = did_log[1].parameters.update_keys
    /\ active_parameters.method = "did:tdw:0.5"
    /\ pre_rotation_active
    /\ next_key_hashes # {}

\* The triple process_log_entry stores for an entry.
Triple(e) == <<e.version_id, e.version_time, e.state>>

\* C31. Append-only history: an entry that passes all checks appends exactly
\* one triple (its versionId, its versionTime, its state) at the end of the
\* processed history, so that the history lists the entries of the log in
\* log order; no step modifies, reorders or removes a triple already in the
\* history, and no other step adds one.
C31_AppendOnly ==
    [][/\ Len(processed_documents') >= Len(processed_documents)
       /\ \A i \in 1..Len(processed_documents) :
              processed_documents'[i] = processed_documents[i]
       /\ Took =>
              \A e \in {Taken} :
              \A first \in {FirstError(PipelineSteps(e))} :
                  IF first = "Ok"
                  THEN processed_documents'
                           = Append(processed_documents, Triple(e))
                  ELSE processed_documents' = processed_documents
       /\ ~Took => processed_documents' = processed_documents
       /\ \A i \in 1..Len(processed_documents') :
              processed_documents'[i] = Triple(did_log'[i])]_vars
\* Two entries have been committed and the history holds their triples in
\* the order of the log.
C31_Witness ==
    /\ Len(processed_documents) = 2
    /\ processed_documents = <<Triple(did_log[1]), Triple(did_log[2])>>
    /\ did_log[1].version_time < did_log[2].version_time

\* C32. In every reachable state of a Resolver the version counter equals
\* the number of triples in the processed history; a step that rejects an
\* entry changes neither the counter nor the history, and leaves the active
\* parameters as the reduction of the entry's parameters left them.
C32_CounterIsHistoryLength ==
    /\ current_version = Len(processed_documents)
    /\ [][/\ current_version' = Len(processed_documents')
          /\ (Took /\ pc' = "returned") =>
                /\ current_version' = current_version
                /\ processed_documents' = processed_documents
                /\ active_parameters'
                     = update_parameters(Self, Taken.parameters)
                           .self.active_parameters]_vars
\* The second entry of a log was rejected by a check after the reduction:
\* the counter and the history are those of the first entry, and the active
\* update keys are those the rejected entry declared.
C32_Witness ==
    /\ pc = "returned"
    /\ "err" \in DOMAIN Unwrap(result)
    /\ Len(did_log) = 2
    /\ current_version = 1
    /\ Len(processed_documents) = 1
    /\ IsSome(did_log[2].parameters.update_keys)
    /\ did_log[2].parameters.update_keys # did_log[1].parameters.update_keys
    /\ active_parameters.update_keys = did_log[2].parameters.update_keys

====
